---- MODULE Spec2Model ----
(***************************************************************************)
(* A model of deepsignal/extract_features.py: the central-signal sampler,  *)
(* the per-batch feature assembler and the producer / worker / writer      *)
(* pipeline of extract_features.                                           *)
(*                                                                         *)
(* Signal samples are floats in the program.  The model keeps every sample *)
(* as an integer tag 10*i + j (sample j of the i-th event of the read), so *)
(* that the origin of each emitted sample stays visible; 0 is the padding  *)
(* value of _get_central_signals.  Python sequences are 0-based, the       *)
(* sequences of the model are 1-based; offsets in reads (cpgloc_in_read)   *)
(* keep their 0-based Python value.                                        *)
(***************************************************************************)
EXTENDS Integers, Sequences, FiniteSets, TLC

VARIABLES
    call,          \* the pure function under call: arguments, position, result
    fast5_files,   \* extract_features: the input file list
    batch_size,    \* extract_features: files per batch
    nproc,         \* extract_features: the configured process count
    args,          \* extract_features: the remaining (read-only) arguments
    fast5s_q,      \* the work queue (mp.Queue of batches)
    featurestr_q,  \* the result queue (mp.Queue of record lists and "kill")
    procs,         \* featurestr_procs: one entry per started worker process
    orch,          \* position of the main process inside extract_features
    p_w,           \* position of the writer process
    wf,            \* the lines written to write_fp
    hist           \* history: batches dequeued, lists pushed, crashes, reads decoded

vars == << call, fast5_files, batch_size, nproc, args, fast5s_q, featurestr_q,
           procs, orch, p_w, wf, hist >>

pipeVars == << fast5_files, batch_size, nproc, args, fast5s_q, featurestr_q,
               procs, orch, p_w, wf, hist >>

(***************************************************************************)
(* Bounds of the model.                                                    *)
(***************************************************************************)
MaxBases == 3       \* longest signals_list handed to _get_central_signals
MaxVecLen == 3      \* most samples in one event
MaxTarget == 4      \* largest rawsignal_num / raw_signals_len
MaxKmer == 4        \* largest kmer_len
MaxBatch == 2       \* longest batch handed to _extract_features alone
MaxFiles == 3       \* longest fast5_files of a pipeline run
MaxBatchSize == 2   \* largest batch_size of a pipeline run
MaxNproc == 3       \* largest nproc of a pipeline run
MaxCrashes == 1     \* most worker processes that die in one run

(***************************************************************************)
(* Python sequence helpers.                                                *)
(***************************************************************************)
Max(a, b) == IF a >= b THEN a ELSE b

Min(a, b) == IF a <= b THEN a ELSE b

\* s[a:b] for 0-based a, b (negative indices count from the end).
PySlice(s, a, b) ==
    LET n  == Len(s)
        lo == IF a < 0 THEN Max(0, n + a) ELSE Min(a, n)
        hi == IF b < 0 THEN Max(0, n + b) ELSE Min(b, n)
    IN  IF hi <= lo THEN << >> ELSE SubSeq(s, lo + 1, hi)

\* s[:n]
PyHead(s, n) == PySlice(s, 0, n)

\* s[-n:]  (s[-0:] is the whole of s)
PyTail(s, n) == IF n = 0 THEN s ELSE PySlice(s, -n, Len(s))

RECURSIVE SumSeq(_)
SumSeq(s) == IF s = << >> THEN 0 ELSE Head(s) + SumSeq(Tail(s))

RECURSIVE Flatten(_)
Flatten(ss) == IF ss = << >> THEN << >> ELSE Head(ss) \o Flatten(Tail(ss))

\* [len(x) for x in signals_list]
LensOf(signals_list) == [i \in 1..Len(signals_list) |-> Len(signals_list[i])]

\* np.concatenate(arrays): ValueError on an empty list of arrays.
NpConcatenateRaises(arrays) == arrays = << >>

\* sorted(random.sample(range(n), k)) as 1-based indices: every strictly
\* increasing choice of k indices out of n.
SortedSamples(n, k) ==
    IF k < 0 \/ k > n THEN {}
    ELSE { s \in [1..k -> 1..n] : \A i \in 1..k, j \in 1..k : i < j => s[i] < s[j] }

Raised == [raised |-> TRUE, value |-> << >>]

Returned(v) == [raised |-> FALSE, value |-> v]

(***************************************************************************)
(* _get_central_signals (lines 161-197).  sample is the outcome of         *)
(* sorted(random.sample(...)), read only in the branch that draws it.      *)
(***************************************************************************)
MidLoc(signals_list) ==
    IF Len(signals_list) = 0 THEN 0 ELSE (Len(signals_list) - 1) \div 2

\* Lines 177-190: left_len and right_len after the shortfall has been
\* shifted, with the samples available on each side.
SplitLens(signals_list, rawsignal_num) ==
    LET mid_loc      == MidLoc(signals_list)
        mid_base_len == Len(signals_list[mid_loc + 1])
        left_len0    == (rawsignal_num - mid_base_len) \div 2
        right_len0   == rawsignal_num - left_len0
        left_avail   == Len(Flatten(PyHead(signals_list, mid_loc)))
        right_avail  == Len(Flatten(PySlice(signals_list, mid_loc, Len(signals_list))))
        shiftL == left_len0 > left_avail
        shiftR == ~shiftL /\ right_len0 > right_avail
    IN  [left_len  |-> IF shiftL THEN left_avail
                       ELSE IF shiftR THEN left_len0 + right_len0 - right_avail
                       ELSE left_len0,
         right_len |-> IF shiftL THEN right_len0 + left_len0 - left_avail
                       ELSE IF shiftR THEN right_avail
                       ELSE right_len0]

\* Lines 176-196: the split around the central base.
CentralSplit(signals_list, rawsignal_num) ==
    LET mid_loc       == MidLoc(signals_list)
        left_list     == PyHead(signals_list, mid_loc)
        right_list    == PySlice(signals_list, mid_loc, Len(signals_list))
        left_signals  == Flatten(left_list)
        right_signals == Flatten(right_list)
        left_len      == SplitLens(signals_list, rawsignal_num).left_len
        right_len     == SplitLens(signals_list, rawsignal_num).right_len
    IN  IF NpConcatenateRaises(left_list) \/ NpConcatenateRaises(right_list)
        THEN Raised
        ELSE IF right_len + left_len # rawsignal_num
        THEN Raised
        ELSE IF left_len = 0
        THEN Returned(PyHead(right_signals, right_len))
        ELSE Returned(PyTail(left_signals, left_len) \o PyHead(right_signals, right_len))

\* Whether the call takes the branch that draws a random sample (lines 172-175).
DrawsSample(signals_list, rawsignal_num) ==
    /\ signals_list # << >>
    /\ SumSeq(LensOf(signals_list)) >= rawsignal_num
    /\ Len(signals_list[MidLoc(signals_list) + 1]) >= rawsignal_num

\* The outcomes random.sample can produce for this call (none: it raises).
SamplesFor(signals_list, rawsignal_num) ==
    IF DrawsSample(signals_list, rawsignal_num)
    THEN SortedSamples(Len(signals_list[MidLoc(signals_list) + 1]), rawsignal_num)
    ELSE {}

_get_central_signals(signals_list, rawsignal_num, sample) ==
    LET signal_lens == LensOf(signals_list)
    IN  IF SumSeq(signal_lens) < rawsignal_num
        THEN IF NpConcatenateRaises(signals_list)
             THEN Raised
             ELSE LET real_signals == Flatten(signals_list)
                  IN  Returned(real_signals \o
                               [i \in 1..(rawsignal_num - Len(real_signals)) |-> 0])
        ELSE IF signals_list = << >>
        THEN Raised                       \* signals_list[mid_loc]: IndexError
        ELSE IF DrawsSample(signals_list, rawsignal_num)
        THEN IF rawsignal_num < 0
             THEN Raised                  \* random.sample: ValueError
             ELSE LET allcentsignals == signals_list[MidLoc(signals_list) + 1]
                  IN  Returned([x \in 1..Len(sample) |-> allcentsignals[sample[x]]])
        ELSE CentralSplit(signals_list, rawsignal_num)

(***************************************************************************)
(* The reads on disk.  A fast5 file is named by a positive integer, which  *)
(* is also its read_id; its content repeats with period Len(Catalog).      *)
(* readable: h5py opens the file and Raw/Reads and the Events table exist  *)
(* (_get_label_raw returns); aligned: the Alignment group exists           *)
(* (_get_alignment_info_from_fast5 returns its attributes, else five       *)
(* empty strings).  base and length are the columns of the Events table.   *)
(***************************************************************************)
Catalog ==
    << [readable |-> TRUE, aligned |-> TRUE, base |-> <<"A", "A", "C", "G", "T">>,
        length |-> <<1, 2, 1, 0, 2>>, alignstrand |-> "+", chrom |-> "chr1",
        chrom_start |-> 3],
       [readable |-> FALSE, aligned |-> FALSE, base |-> << >>,
        length |-> << >>, alignstrand |-> "", chrom |-> "", chrom_start |-> 0],
       [readable |-> TRUE, aligned |-> TRUE, base |-> <<"C", "G", "C", "G">>,
        length |-> <<2, 1, 3, 1>>, alignstrand |-> "-", chrom |-> "chr1",
        chrom_start |-> 2],
       [readable |-> TRUE, aligned |-> FALSE, base |-> <<"A", "C", "G">>,
        length |-> <<1, 1, 1>>, alignstrand |-> "+", chrom |-> "chr1",
        chrom_start |-> 0],
       [readable |-> TRUE, aligned |-> TRUE, base |-> <<"G", "C", "G", "C", "G", "T">>,
        length |-> <<1, 1, 2, 1, 1, 1>>, alignstrand |-> "-", chrom |-> "chr2",
        chrom_start |-> 0],
       [readable |-> TRUE, aligned |-> TRUE, base |-> <<"C", "G">>,
        length |-> <<1, 1>>, alignstrand |-> "+", chrom |-> "chrUn",
        chrom_start |-> 1] >>

Fast5(fast5_fp) == Catalog[((fast5_fp - 1) % Len(Catalog)) + 1]

\* get_contig2len(reference_path): the reference holds chr1 and chr2.
chrom2len == [c \in {"chr1", "chr2"} |-> IF c = "chr1" THEN 20 ELSE 9]

\* The sample tags of event i of a read: norm_signals[e[0]:(e[0] + e[1])].
EventSignals(i, n) == [j \in 1..n |-> 10 * i + j]

(***************************************************************************)
(* Collaborators of _extract_features.                                     *)
(***************************************************************************)
\* _normalize_signals (lines 120-128): ValueError for an unknown method.
NormalizeRaises(normalize_method) == normalize_method \notin {"zscore", "mad"}

\* utils.process_utils.get_refloc_of_methysite_in_motif: every 0-based start
\* of motif in seqstr, shifted by methyloc, ascending.
RECURSIVE SitesFrom(_, _, _, _)
SitesFrom(seqstr, motif, methyloc, i) ==
    IF i + Len(motif) > Len(seqstr) THEN << >>
    ELSE (IF PySlice(seqstr, i, i + Len(motif)) = motif THEN << i + methyloc >> ELSE << >>)
         \o SitesFrom(seqstr, motif, methyloc, i + 1)

get_refloc_of_methysite_in_motif(seqstr, motif, methyloc) ==
    SitesFrom(seqstr, motif, methyloc, 0)

\* Lines 223-225: the sites of every motif, one motif after the other.
RECURSIVE CpgSiteLocs(_, _, _)
CpgSiteLocs(genomeseq, motif_seqs, methyloc) ==
    IF motif_seqs = << >> THEN << >>
    ELSE get_refloc_of_methysite_in_motif(genomeseq, Head(motif_seqs), methyloc)
         \o CpgSiteLocs(genomeseq, Tail(motif_seqs), methyloc)

\* np.mean and np.std (population) of one event, truncated to integers;
\* an empty event gives nan.
ISqrt(n) == CHOOSE r \in 0..n : r * r <= n /\ n < (r + 1) * (r + 1)

Mean(x) == IF x = << >> THEN "nan" ELSE SumSeq(x) \div Len(x)

Std(x) ==
    IF x = << >> THEN "nan"
    ELSE ISqrt(SumSeq([i \in 1..Len(x) |-> (x[i] - Mean(x)) * (x[i] - Mean(x))])
               \div Len(x))

\* The draw of random.sample inside one call of _extract_features: the
\* generator state rnd picks the lowest or the highest indices.
Sample(n, k, rnd) ==
    IF k < 0 \/ k > n THEN << >>
    ELSE IF rnd = "low" THEN [i \in 1..k |-> i] ELSE [i \in 1..k |-> n - k + i]

(***************************************************************************)
(* _extract_features (lines 200-268).                                      *)
(***************************************************************************)
\* Lines 218-221.
ChromStartInAlignstrand(alignstrand, chrom_start, chromlen, genomelen) ==
    IF alignstrand = "+" THEN chrom_start
    ELSE chromlen - (chrom_start + genomelen)

\* Line 233.
CpglocInRef(cpgloc_in_read, chrom_start_in_alignstrand) ==
    cpgloc_in_read + chrom_start_in_alignstrand

\* As PosInStrand, with the reverse strand flipped around chromlen instead of
\* chromlen - 1.
PosInStrand_NoMinusOne(alignstrand, chromlen, cpgloc_in_ref) ==
    IF alignstrand = "-" THEN chromlen - cpgloc_in_ref ELSE cpgloc_in_ref

\* Lines 236-239.
PosInStrand(alignstrand, chromlen, cpgloc_in_ref) ==
    IF alignstrand = "-" THEN chromlen - 1 - cpgloc_in_ref ELSE cpgloc_in_ref

\* As SiteInBounds, with the upper bound inclusive.
SiteInBounds_Inclusive(cpgloc_in_read, num_bases, genomelen) ==
    num_bases <= cpgloc_in_read /\ cpgloc_in_read <= genomelen - num_bases

\* Line 232.
SiteInBounds(cpgloc_in_read, num_bases, genomelen) ==
    num_bases <= cpgloc_in_read /\ cpgloc_in_read < genomelen - num_bases

\* Lines 233-261 for one site inside the bounds: the record, or the raise of
\* _get_central_signals.
SiteRecord(ctx, a, cpgloc_in_read) ==
    LET num_bases     == (a.kmer_len - 1) \div 2
        cpgloc_in_ref == CpglocInRef(cpgloc_in_read, ctx.chrom_start_in_alignstrand)
        pos           == PosInStrand(ctx.alignstrand, ctx.chromlen, cpgloc_in_ref)
        k_mer     == PySlice(ctx.genomeseq, cpgloc_in_read - num_bases,
                             cpgloc_in_read + num_bases + 1)
        k_signals == PySlice(ctx.signal_list, cpgloc_in_read - num_bases,
                             cpgloc_in_read + num_bases + 1)
        signal_lens == LensOf(k_signals)
        mid_len == IF k_signals = << >> THEN 0
                   ELSE Len(k_signals[MidLoc(k_signals) + 1])
        cent == _get_central_signals(k_signals, a.raw_signals_len,
                                     Sample(mid_len, a.raw_signals_len, a.rnd))
    IN  IF cent.raised THEN Raised
        ELSE Returned([chrom |-> ctx.chrom, pos |-> pos, alignstrand |-> ctx.alignstrand,
                       pos_in_strand |-> cpgloc_in_ref, readname |-> ctx.readname,
                       read_strand |-> ctx.strand, k_mer |-> k_mer,
                       signal_means |-> [i \in 1..Len(k_signals) |-> Mean(k_signals[i])],
                       signal_stds |-> [i \in 1..Len(k_signals) |-> Std(k_signals[i])],
                       signal_lens |-> signal_lens, cent_signals |-> cent.value,
                       methy_label |-> a.methy_label])

\* Lines 231-261: the loop over the sites.  A raise leaves the records already
\* appended to features_str in place.
RECURSIVE SiteLoop(_, _, _, _)
SiteLoop(ctx, a, sites, done) ==
    IF sites = << >> THEN [raised |-> FALSE, records |-> done]
    ELSE IF ~SiteInBounds(Head(sites), (a.kmer_len - 1) \div 2, Len(ctx.genomeseq))
    THEN SiteLoop(ctx, a, Tail(sites), done)
    ELSE LET r == SiteRecord(ctx, a, Head(sites))
         IN  IF r.raised THEN [raised |-> TRUE, records |-> done]
             ELSE SiteLoop(ctx, a, Tail(sites), Append(done, r.value))

\* Lines 207-261: the body of the try for one file.
TryRead(fast5_fp, a) ==
    LET f == Fast5(fast5_fp)
        genomeseq   == f.base
        signal_list == [i \in 1..Len(f.length) |-> EventSignals(i, f.length[i])]
        chrom       == IF f.aligned THEN f.chrom ELSE ""
        alignstrand == IF f.aligned THEN f.alignstrand ELSE ""
        chrom_start == IF f.aligned THEN f.chrom_start ELSE ""
        ctx == [genomeseq |-> genomeseq, signal_list |-> signal_list,
                readname |-> IF f.aligned THEN fast5_fp ELSE "",
                strand |-> IF f.aligned THEN "t" ELSE "",
                alignstrand |-> alignstrand, chrom |-> chrom,
                chromlen |-> chrom2len[chrom],
                chrom_start_in_alignstrand |->
                    ChromStartInAlignstrand(alignstrand, chrom_start, chrom2len[chrom],
                                            Len(genomeseq))]
    IN  IF ~f.readable THEN [raised |-> TRUE, records |-> << >>]
        ELSE IF NormalizeRaises(a.normalize_method) THEN [raised |-> TRUE, records |-> << >>]
        ELSE IF chrom \notin DOMAIN chrom2len THEN [raised |-> TRUE, records |-> << >>]
        ELSE IF a.kmer_len % 2 = 0 THEN [raised |-> TRUE, records |-> << >>]
        ELSE SiteLoop(ctx, a, CpgSiteLocs(genomeseq, a.motif_seqs, a.methyloc), << >>)

\* As ExceptClause, without the try: the exception of the read leaves the
\* function.
ExceptClause_Reraise(acc, r) ==
    [features_str |-> acc.features_str \o r.records,
     error |-> acc.error,
     escaped |-> r.raised]

\* Lines 263-265: except Exception: error += 1; continue.
ExceptClause(acc, r) ==
    [features_str |-> acc.features_str \o r.records,
     error |-> IF r.raised THEN acc.error + 1 ELSE acc.error,
     escaped |-> FALSE]

\* Lines 203-268: the loop over the batch; escaped says that an exception
\* left the function instead of the return at line 268.
RECURSIVE ExtractLoop(_, _, _)
ExtractLoop(fast5s, a, acc) ==
    IF fast5s = << >> \/ acc.escaped THEN acc
    ELSE ExtractLoop(Tail(fast5s), a, ExceptClause(acc, TryRead(Head(fast5s), a)))

_extract_features(fast5s, a) ==
    ExtractLoop(fast5s, a, [features_str |-> << >>, error |-> 0, escaped |-> FALSE])

(***************************************************************************)
(* The arguments a call can be made with.                                  *)
(***************************************************************************)
CG == <<"C", "G">>

GC == <<"G", "C">>

DefaultArgs ==
    [normalize_method |-> "mad", motif_seqs |-> << CG >>, methyloc |-> 0,
     kmer_len |-> 3, raw_signals_len |-> 3, methy_label |-> 1, rnd |-> "low"]

\* Arguments of _extract_features called alone.
ExtractArgs ==
    { [DefaultArgs EXCEPT !.kmer_len = k, !.raw_signals_len = n, !.methyloc = m,
                          !.rnd = r] :
        k \in 1..MaxKmer, n \in 0..MaxTarget, m \in 0..1, r \in {"low", "high"} }
    \cup { [DefaultArgs EXCEPT !.normalize_method = "median"],
           [DefaultArgs EXCEPT !.motif_seqs = << CG, GC >>],
           [DefaultArgs EXCEPT !.motif_seqs = << CG, CG >>, !.kmer_len = 1] }

\* Every sequence over S of length at most n.
SeqsUpTo(S, n) == UNION { [1..m -> S] : m \in 0..n }

\* The signals_list whose events have the given lengths.
SignalsOf(lens) == [i \in 1..Len(lens) |-> EventSignals(i, lens[i])]

NoCall == [fn |-> "none"]

\* The history of a run that has not started: the batches taken off the work
\* queue, the (batch, record list) pairs put on the result queue, the batches
\* in the hands of a worker that died, the number of dead workers, the number
\* of reads decoded, and the nproc extract_features was called with.
NoHist(n) ==
    [dequeued |-> << >>, pushed |-> << >>, lost |-> << >>, crashes |-> 0,
     decoded |-> 0, nproc |-> n]

\* The pipeline before extract_features is entered.
PipeIdle ==
    /\ fast5_files = << >> /\ batch_size = 1 /\ nproc = 1 /\ args = DefaultArgs
    /\ fast5s_q = << >> /\ featurestr_q = << >> /\ procs = << >>
    /\ orch = [pc |-> "idle", i |-> 0] /\ p_w = "unstarted" /\ wf = << >>
    /\ hist = NoHist(1)

(***************************************************************************)
(* SpecCentral: _get_central_signals called on its own.                    *)
(***************************************************************************)
InitCentral ==
    /\ PipeIdle
    /\ \E lens \in SeqsUpTo(0..MaxVecLen, MaxBases), n \in (-1)..MaxTarget :
          call = [fn |-> "_get_central_signals", pc |-> "called",
                  signals_list |-> SignalsOf(lens), rawsignal_num |-> n,
                  sample |-> << >>, ret |-> << >>]

CentralSignalsCall ==
    /\ call.fn = "_get_central_signals" /\ call.pc = "called"
    /\ \E sample \in (IF SamplesFor(call.signals_list, call.rawsignal_num) = {}
                      THEN { << >> }
                      ELSE SamplesFor(call.signals_list, call.rawsignal_num)) :
          LET r == _get_central_signals(call.signals_list, call.rawsignal_num, sample)
          IN  call' = [call EXCEPT !.pc = IF r.raised THEN "raised" ELSE "returned",
                                   !.sample = sample, !.ret = r.value]
    /\ UNCHANGED pipeVars

NextCentral == CentralSignalsCall

SpecCentral == InitCentral /\ [][NextCentral]_vars

(***************************************************************************)
(* SpecExtract: _extract_features called on its own on one batch.          *)
(***************************************************************************)
InitExtract ==
    /\ PipeIdle
    /\ \E fast5s \in SeqsUpTo(1..Len(Catalog), MaxBatch), a \in ExtractArgs :
          call = [fn |-> "_extract_features", pc |-> "called", fast5s |-> fast5s,
                  a |-> a, features_str |-> << >>, error |-> 0]

ExtractFeaturesCall ==
    /\ call.fn = "_extract_features" /\ call.pc = "called"
    /\ LET r == _extract_features(call.fast5s, call.a)
       IN  call' = [call EXCEPT !.pc = IF r.escaped THEN "raised" ELSE "returned",
                                !.features_str = r.features_str, !.error = r.error]
    /\ UNCHANGED pipeVars

NextExtract == ExtractFeaturesCall

SpecExtract == InitExtract /\ [][NextExtract]_vars

(***************************************************************************)
(* extract_features (lines 305-340) and its processes.                     *)
(***************************************************************************)
\* Arguments of a pipeline run: a valid configuration, an even kmer_len, an
\* unknown normalisation method.
PipeArgs ==
    { DefaultArgs, [DefaultArgs EXCEPT !.kmer_len = 2],
      [DefaultArgs EXCEPT !.normalize_method = "median"] }

Init ==
    /\ call = NoCall
    /\ \E n \in 0..MaxFiles : fast5_files = [i \in 1..n |-> i]
    /\ batch_size \in 1..MaxBatchSize
    /\ nproc \in 0..MaxNproc
    /\ args \in PipeArgs
    /\ fast5s_q = << >> /\ featurestr_q = << >> /\ procs = << >>
    /\ orch = [pc |-> "fill", i |-> 0]
    /\ p_w = "unstarted" /\ wf = << >>
    /\ hist = NoHist(nproc)

\* As Batches, with every slice one file too long.
Batches_Overlap(files, size) ==
    [k \in 1..((Len(files) + size - 1) \div size) |->
        PySlice(files, (k - 1) * size, (k - 1) * size + size + 1)]

\* _fill_files_queue (lines 271-274): fast5_files[i:(i+batch_size)] for
\* i in np.arange(0, len(fast5_files), batch_size).
Batches(files, size) ==
    [k \in 1..((Len(files) + size - 1) \div size) |->
        PySlice(files, (k - 1) * size, (k - 1) * size + size)]

\* Lines 316-317: the number of worker processes for a given nproc.
NumWorkers(n) == IF n > 1 THEN n - 1 ELSE n

\* Lines 310-317: fill the work queue, create the result queue, keep one
\* process for the writer.
FillFilesQueue ==
    /\ orch.pc = "fill"
    /\ fast5s_q' = fast5s_q \o Batches(fast5_files, batch_size)
    /\ nproc' = NumWorkers(nproc)
    /\ orch' = [pc |-> "start_workers", i |-> 0]
    /\ UNCHANGED << call, fast5_files, batch_size, args, featurestr_q, procs, p_w,
                    wf, hist >>

\* Lines 318-325: one turn of the loop for _ in range(nproc).
StartWorker ==
    /\ orch.pc = "start_workers" /\ orch.i < nproc
    /\ procs' = Append(procs, [pc |-> "check", fast5s |-> << >>])
    /\ orch' = [orch EXCEPT !.i = orch.i + 1]
    /\ UNCHANGED << call, fast5_files, batch_size, nproc, args, fast5s_q,
                    featurestr_q, p_w, wf, hist >>

\* Lines 327-330: the loop is over, the writer process starts.
StartWriter ==
    /\ orch.pc = "start_workers" /\ orch.i >= nproc
    /\ p_w' = "running"
    /\ orch' = [pc |-> "join_workers", i |-> 0]
    /\ UNCHANGED << call, fast5_files, batch_size, nproc, args, fast5s_q,
                    featurestr_q, procs, wf, hist >>

\* As Ended, for a join that does not wait for the process.
Ended_NoWait(p) == TRUE

\* p.join() returns: the process has ended, by itself or by dying.
Ended(p) == p.pc \in {"done", "crashed"}

\* Lines 332-333: one p.join() of the loop over featurestr_procs.
JoinWorker ==
    /\ orch.pc = "join_workers" /\ orch.i < Len(procs)
    /\ Ended(procs[orch.i + 1])
    /\ orch' = [orch EXCEPT !.i = orch.i + 1]
    /\ UNCHANGED << call, fast5_files, batch_size, nproc, args, fast5s_q,
                    featurestr_q, procs, p_w, wf, hist >>

\* Lines 335-336: every join has returned, the sentinel goes on the queue.
PutKill ==
    /\ orch.pc = "join_workers" /\ orch.i >= Len(procs)
    /\ featurestr_q' = Append(featurestr_q, "kill")
    /\ orch' = [pc |-> "join_writer", i |-> 0]
    /\ UNCHANGED << call, fast5_files, batch_size, nproc, args, fast5s_q, procs,
                    p_w, wf, hist >>

\* Lines 338-340: p_w.join() returns and extract_features returns.
JoinWriter ==
    /\ orch.pc = "join_writer" /\ p_w = "done"
    /\ orch' = [pc |-> "returned", i |-> 0]
    /\ UNCHANGED << call, fast5_files, batch_size, nproc, args, fast5s_q,
                    featurestr_q, procs, p_w, wf, hist >>

(***************************************************************************)
(* _get_a_batch_features_str (lines 277-288): a worker process.            *)
(***************************************************************************)
\* Line 280: while not fast5s_q.empty().
WorkerCheck(w) ==
    /\ procs[w].pc = "check"
    /\ procs' = [procs EXCEPT ![w].pc = IF fast5s_q = << >> THEN "done" ELSE "get"]
    /\ UNCHANGED << call, fast5_files, batch_size, nproc, args, fast5s_q,
                    featurestr_q, orch, p_w, wf, hist >>

\* Line 282: fast5s_q.get(), which blocks while the queue is empty.
WorkerGet(w) ==
    /\ procs[w].pc = "get"
    /\ fast5s_q # << >>
    /\ procs' = [procs EXCEPT ![w] = [pc |-> "extract", fast5s |-> Head(fast5s_q)]]
    /\ fast5s_q' = Tail(fast5s_q)
    /\ hist' = [hist EXCEPT !.dequeued = Append(@, Head(fast5s_q))]
    /\ UNCHANGED << call, fast5_files, batch_size, nproc, args, featurestr_q, orch,
                    p_w, wf >>

\* Lines 285-288: _extract_features on the batch, then featurestr_q.put.
WorkerExtract(w) ==
    /\ procs[w].pc = "extract"
    /\ LET fast5s == procs[w].fast5s
           r == _extract_features(fast5s, args)
       IN  /\ ~r.escaped
           /\ featurestr_q' = Append(featurestr_q, r.features_str)
           /\ hist' = [hist EXCEPT
                  !.pushed = Append(@, [fast5s |-> fast5s,
                                        features_str |-> r.features_str]),
                  !.decoded = @ + Cardinality({i \in DOMAIN fast5s :
                                                 Fast5(fast5s[i]).readable})]
    /\ procs' = [procs EXCEPT ![w] = [pc |-> "check", fast5s |-> << >>]]
    /\ UNCHANGED << call, fast5_files, batch_size, nproc, args, fast5s_q, orch,
                    p_w, wf >>

\* The worker process dies (killed, out of memory, a fault in a native
\* library) after it took a batch and before it put the record list.
WorkerCrash(w) ==
    /\ procs[w].pc = "extract"
    /\ hist.crashes < MaxCrashes
    /\ procs' = [procs EXCEPT ![w] = [pc |-> "crashed", fast5s |-> << >>]]
    /\ hist' = [hist EXCEPT !.crashes = @ + 1, !.lost = Append(@, procs[w].fast5s)]
    /\ UNCHANGED << call, fast5_files, batch_size, nproc, args, fast5s_q,
                    featurestr_q, orch, p_w, wf >>

(***************************************************************************)
(* _write_featurestr_to_file (lines 291-302): the writer process.  The     *)
(* sleep of line 296 only delays the get that follows it.                  *)
(***************************************************************************)
WriterGet ==
    /\ p_w = "running"
    /\ featurestr_q # << >>
    /\ featurestr_q' = Tail(featurestr_q)
    /\ IF Head(featurestr_q) = "kill"
       THEN p_w' = "done" /\ wf' = wf
       ELSE p_w' = p_w /\ wf' = wf \o Head(featurestr_q)
    /\ UNCHANGED << call, fast5_files, batch_size, nproc, args, fast5s_q, procs,
                    orch, hist >>

\* Every step of the pipeline but the death of a worker.
NextNoCrash ==
    \/ FillFilesQueue
    \/ StartWorker
    \/ StartWriter
    \/ JoinWorker
    \/ PutKill
    \/ JoinWriter
    \/ WriterGet
    \/ \E w \in DOMAIN procs : WorkerCheck(w)
    \/ \E w \in DOMAIN procs : WorkerGet(w)
    \/ \E w \in DOMAIN procs : WorkerExtract(w)

Next ==
    \/ NextNoCrash
    \/ \E w \in DOMAIN procs : WorkerCrash(w)

Spec == Init /\ [][Next]_vars

(***************************************************************************)
(* Properties of _get_central_signals.                                     *)
(***************************************************************************)
CentralDone == call.fn = "_get_central_signals" /\ call.pc # "called"

\* C1: for every non-empty signal_list and every target_len >= 0,
\* _get_central_signals returns (it does not raise) a vector of exactly
\* target_len elements, whichever of its three branches it takes.
C1_FixedWidth ==
    (CentralDone /\ call.signals_list # << >> /\ call.rawsignal_num >= 0)
        => (call.pc = "returned" /\ Len(call.ret) = call.rawsignal_num)

\* The call took the split branch of lines 176-196: the window holds at
\* least rawsignal_num samples and the central vector fewer.
InSplitBranch ==
    /\ CentralDone /\ call.signals_list # << >>
    /\ SumSeq(LensOf(call.signals_list)) >= call.rawsignal_num
    /\ Len(call.signals_list[MidLoc(call.signals_list) + 1]) < call.rawsignal_num

\* What C11 says of a call in the split branch.
SplitIsCentredSlice ==
    LET lens    == LensOf(call.signals_list)
        mid     == MidLoc(call.signals_list)
        before  == SumSeq(SubSeq(lens, 1, mid))
        onward  == SumSeq(SubSeq(lens, mid + 1, Len(lens)))
        window  == Flatten(call.signals_list)
        sl      == SplitLens(call.signals_list, call.rawsignal_num)
    IN  /\ sl.left_len + sl.right_len = call.rawsignal_num
        /\ 0 <= sl.left_len /\ sl.left_len <= before
        /\ 0 <= sl.right_len /\ sl.right_len <= onward
        /\ call.pc = "returned"
        /\ call.ret = SubSeq(window, before - sl.left_len + 1, before + sl.right_len)
        /\ sl.right_len >= lens[mid + 1]

\* C11: in the split branch (total sample count >= target_len, central vector
\* shorter than target_len), after the shortfall is shifted left_len +
\* right_len = target_len with 0 <= left_len <= samples before the central
\* vector and 0 <= right_len <= samples from it onward, so the assertion of
\* line 192 holds, and the output is the last left_len samples of the left
\* concatenation followed by the first right_len of the right one: a
\* contiguous slice of the window that holds every sample of the central base.
C11_SplitIsCentredSlice == InSplitBranch => SplitIsCentredSlice

\* The same for every signals_list but those of two events.
SplitIsCentredSliceButPairs ==
    (InSplitBranch /\ Len(call.signals_list) # 2) => SplitIsCentredSlice

(***************************************************************************)
(* Properties of _extract_features.                                        *)
(***************************************************************************)
ExtractDone == call.fn = "_extract_features" /\ call.pc # "called"

\* The read raises inside the try of lines 206-261.
ReadFails(fast5_fp, a) == TryRead(fast5_fp, a).raised

\* The read raises before its sites are looked at: the file cannot be
\* decoded, the normalisation method is unknown, or its chromosome is not in
\* the reference.
FailsBeforeSites(fast5_fp, a) ==
    \/ ~Fast5(fast5_fp).readable
    \/ a.normalize_method \notin {"zscore", "mad"}
    \/ ~Fast5(fast5_fp).aligned
    \/ Fast5(fast5_fp).chrom \notin {"chr1", "chr2"}

\* The located sites of a read that leave room for a whole k-mer, in order.
InBoundsSites(fast5_fp, a) ==
    LET genome_sequence == Fast5(fast5_fp).base
        num_bases == (a.kmer_len - 1) \div 2
    IN  SelectSeq(CpgSiteLocs(genome_sequence, a.motif_seqs, a.methyloc),
                  LAMBDA o : num_bases <= o /\ o < Len(genome_sequence) - num_bases)

\* The records of the batch that carry the read's name, in output order.
RecordsOf(fast5_fp) == SelectSeq(call.features_str, LAMBDA r : r.readname = fast5_fp)

\* How often the file occurs in the batch.
Occurrences(fast5_fp) ==
    Cardinality({i \in DOMAIN call.fast5s : call.fast5s[i] = fast5_fp})

\* The site the j-th record of a read belongs to.
SiteOfRecord(fast5_fp, a, j) ==
    InBoundsSites(fast5_fp, a)[((j - 1) % Len(InBoundsSites(fast5_fp, a))) + 1]

\* C6: every read whose processing raises adds exactly one to the error
\* count, the loop goes on with the next read, the records of the batch are
\* those of the batch without the failing reads, the returned error count is
\* the number of failing reads, and no exception leaves _extract_features.
C6_PerReadIsolation ==
    ExtractDone =>
        LET failing == {i \in DOMAIN call.fast5s : ReadFails(call.fast5s[i], call.a)}
            others  == SelectSeq(call.fast5s, LAMBDA fp : ~ReadFails(fp, call.a))
            alone   == _extract_features(others, call.a)
        IN  /\ call.pc = "returned"
            /\ call.error = Cardinality(failing)
            /\ Len(others) + call.error = Len(call.fast5s)
            /\ call.features_str = alone.features_str
            /\ alone.error = 0

\* A batch with a failing and a succeeding read has been processed.
C6_Witness ==
    /\ ExtractDone /\ call.pc = "returned"
    /\ call.error >= 1 /\ call.error < Len(call.fast5s)
    /\ call.features_str # << >>

\* C7: for odd kmer_len a located site o yields a record exactly when
\* num_bases <= o < len(genome_sequence) - num_bases; sites outside are
\* skipped and do not make the read fail; each record's k_mer is
\* genome_sequence[o-num_bases .. o+num_bases], and k_mer, signal_means,
\* signal_stds and signal_lens all have kmer_len entries.  "AACGT" with motif
\* "CG", offset 0 and kmer_len 3 yields one record, for site 2, k_mer "ACG".
C7_SiteBoundsAndKmer ==
    (ExtractDone /\ call.a.kmer_len % 2 = 1) =>
        LET a == call.a
            num_bases == (a.kmer_len - 1) \div 2
        IN  /\ call.error = Cardinality({i \in DOMAIN call.fast5s :
                                           FailsBeforeSites(call.fast5s[i], a)})
            /\ \A i \in DOMAIN call.fast5s :
                  LET fp   == call.fast5s[i]
                      recs == RecordsOf(fp)
                      seq  == Fast5(fp).base
                  IN  ~FailsBeforeSites(fp, a) =>
                        /\ Len(recs) = Occurrences(fp) * Len(InBoundsSites(fp, a))
                        /\ \A j \in DOMAIN recs :
                              LET o == SiteOfRecord(fp, a, j)
                              IN  /\ recs[j].k_mer
                                       = SubSeq(seq, o - num_bases + 1, o + num_bases + 1)
                                  /\ Len(recs[j].k_mer) = a.kmer_len
                                  /\ Len(recs[j].signal_means) = a.kmer_len
                                  /\ Len(recs[j].signal_stds) = a.kmer_len
                                  /\ Len(recs[j].signal_lens) = a.kmer_len
            /\ (call.fast5s = << 1 >> /\ a.motif_seqs = << CG >> /\ a.methyloc = 0
                  /\ a.kmer_len = 3 /\ a.normalize_method = "mad")
                 => /\ Len(call.features_str) = 1
                    /\ call.features_str[1].k_mer = <<"A", "C", "G">>
                    /\ call.features_str[1].pos_in_strand - Fast5(1).chrom_start = 2

\* Read "CGCG" with kmer_len 3: the site at offset 0 is dropped, the site at
\* offset 2 gives the only record, and the read is not counted as failed.
C7_Witness ==
    /\ ExtractDone /\ call.fast5s = << 3 >>
    /\ call.a.kmer_len = 3 /\ call.a.methyloc = 0 /\ call.a.motif_seqs = << CG >>
    /\ Len(CpgSiteLocs(Fast5(3).base, call.a.motif_seqs, 0)) = 2
    /\ Len(call.features_str) = 1 /\ call.error = 0

\* The inverse of the coordinate mapping: the in-read offset of a position.
OffsetOfPos(pos, alignstrand, chrom_start, genome_sequence_len, chrom_len) ==
    IF alignstrand = "+" THEN pos - chrom_start
    ELSE (chrom_len - 1 - pos) - (chrom_len - (chrom_start + genome_sequence_len))

\* C8: the coordinate mapping round-trips.  For alignstrand '+' the position
\* is o + chrom_start; for '-' it is chrom_len - 1 - (o + chrom_len -
\* (chrom_start + genome_sequence_len)); inverting either with the same
\* chrom_len gives o back, and distinct offsets get distinct positions.
C8_CoordinateRoundTrip ==
    ExtractDone =>
        \A i \in DOMAIN call.fast5s :
            LET fp   == call.fast5s[i]
                f    == Fast5(fp)
                recs == RecordsOf(fp)
            IN  (~ReadFails(fp, call.a) /\ f.alignstrand \in {"+", "-"}) =>
                  /\ \A j \in DOMAIN recs :
                        /\ OffsetOfPos(recs[j].pos, f.alignstrand, f.chrom_start,
                                       Len(f.base), chrom2len[f.chrom])
                             = SiteOfRecord(fp, call.a, j)
                        /\ f.alignstrand = "+" =>
                             recs[j].pos = SiteOfRecord(fp, call.a, j) + f.chrom_start
                        /\ recs[j].pos \in 0..(chrom2len[f.chrom] - 1)
                  /\ \A j \in DOMAIN recs, k \in DOMAIN recs :
                        SiteOfRecord(fp, call.a, j) # SiteOfRecord(fp, call.a, k)
                            => recs[j].pos # recs[k].pos

\* A forward-strand and a reverse-strand read have both been mapped, the
\* reverse-strand read at two distinct offsets.
C8_Witness ==
    /\ ExtractDone /\ call.fast5s = << 1, 5 >>
    /\ call.a.kmer_len = 1
    /\ Len(RecordsOf(1)) >= 1 /\ Len(RecordsOf(5)) >= 2

(***************************************************************************)
(* Properties of the pipeline.                                             *)
(***************************************************************************)
\* The record lists put on the result queue so far, joined in put order.
PushedLines == Flatten([i \in DOMAIN hist.pushed |-> hist.pushed[i].features_str])

\* The record lists still on the result queue, joined in queue order.
QueuedLines == Flatten(SelectSeq(featurestr_q, LAMBDA x : x # "kill"))

\* The batches in the hands of a worker.
HeldBatches == { procs[w].fast5s : w \in {v \in DOMAIN procs : procs[v].pc = "extract"} }

\* bs cuts files into consecutive batches of size files, the last one
\* possibly shorter.
IsPartition(bs, files, size) ==
    /\ Flatten(bs) = files
    /\ \A k \in DOMAIN bs : Len(bs[k]) = size \/ (k = Len(bs) /\ Len(bs[k]) \in 1..size)

\* The main process, a worker, the writer can take its next step: none of
\* them waits in a join or in a get on an empty queue.
MainCanStep ==
    \/ orch.pc \in {"fill", "start_workers"}
    \/ orch.pc = "join_workers" /\ (orch.i >= Len(procs) \/ Ended(procs[orch.i + 1]))
    \/ orch.pc = "join_writer" /\ p_w = "done"

WorkerCanStep(w) ==
    \/ procs[w].pc \in {"check", "extract"}
    \/ procs[w].pc = "get" /\ fast5s_q # << >>

WriterCanStep == p_w = "running" /\ featurestr_q # << >>

SomeProcessCanStep ==
    MainCanStep \/ WriterCanStep \/ \E w \in DOMAIN procs : WorkerCanStep(w)

\* Every step of the pipeline starts in a state where SomeProcessCanStep
\* holds: where it is false, no process has a step left.
GuardsCoverSteps == [][NextNoCrash => SomeProcessCanStep]_vars

\* C2: in a run where no worker dies, for every file list, batch size and
\* worker count, the workers end once the work queue is empty, the joins
\* return, the sentinel is put, the writer ends and extract_features returns:
\* until it has returned, some process can always take a step.
C2_NoProcessBlockedForever ==
    hist.crashes = 0 => (orch.pc = "returned" \/ SomeProcessCanStep)

\* C3: the sentinel is put only after every worker has ended, the writer ends
\* only on the sentinel, every record list put by a worker has been written in
\* full before the writer ends, and nothing is written after the sentinel.
C3_SentinelAfterWorkers ==
    /\ \A i \in DOMAIN featurestr_q :
          featurestr_q[i] = "kill" => (i = Len(featurestr_q) /\ orch.pc = "join_writer")
    /\ orch.pc \in {"join_writer", "returned"} => \A w \in DOMAIN procs : Ended(procs[w])
    /\ wf \o QueuedLines = PushedLines
    /\ p_w = "done" =>
          /\ orch.pc \in {"join_writer", "returned"}
          /\ featurestr_q = << >>
          /\ wf = PushedLines

\* The writer has ended after two workers put record lists with lines.
C3_Witness ==
    /\ p_w = "done" /\ Len(procs) >= 2
    /\ Len(hist.pushed) >= 2 /\ wf # << >>
    /\ \E i \in DOMAIN hist.pushed : hist.pushed[i].features_str # << >>

\* C4: if one worker dies between taking a batch and putting its record list,
\* that batch's records are missing from the output, every other batch is
\* still processed and written, and the main process still puts the sentinel
\* and returns.
C4_CrashLosesOnlyItsBatch ==
    hist.crashes = 1 =>
        /\ orch.pc = "returned" \/ SomeProcessCanStep
        /\ orch.pc = "returned" =>
              /\ { hist.pushed[i].fast5s : i \in DOMAIN hist.pushed }
                    = { hist.dequeued[i] : i \in DOMAIN hist.dequeued }
                        \ { hist.lost[i] : i \in DOMAIN hist.lost }
              /\ fast5s_q = << >>
              /\ wf = PushedLines

\* C5: a configuration error is fatal and shown before any processing: with
\* an even kmer_len no read is decoded, no batch reaches a worker, and the run
\* does not complete normally.
C5_EvenKmerIsFatal ==
    args.kmer_len % 2 = 0 =>
        /\ hist.decoded = 0
        /\ hist.dequeued = << >>
        /\ orch.pc # "returned"

\* C9: for every configured worker count n, n = 0 and n = 1 included, the
\* number of worker processes started is max(1, n - 1).
C9_WorkerCount ==
    orch.pc \notin {"fill", "start_workers"} => Len(procs) = Max(1, hist.nproc - 1)

\* C10: in a run without a dead worker and with at least one worker, the file
\* list is cut into consecutive batches of batch_size (the last possibly
\* shorter), all on the work queue before any worker takes one; every batch is
\* taken by exactly one worker and gives exactly one record list on the result
\* queue; when the pipeline is done no batch is left on the work queue and
\* none was processed twice.
C10_BatchesExactlyOnce ==
    /\ orch.pc = "fill" => (procs = << >> /\ hist.dequeued = << >>)
    /\ orch.pc # "fill" => IsPartition(hist.dequeued \o fast5s_q, fast5_files, batch_size)
    /\ hist.crashes = 0 =>
          /\ Len(hist.dequeued) = Len(hist.pushed) + Cardinality(HeldBatches)
          /\ { hist.dequeued[i] : i \in DOMAIN hist.dequeued }
                = { hist.pushed[i].fast5s : i \in DOMAIN hist.pushed } \cup HeldBatches
          /\ (orch.pc = "returned" /\ Len(procs) >= 1) =>
                /\ fast5s_q = << >>
                /\ HeldBatches = {}
                /\ Len(hist.pushed) = Len(hist.dequeued)
                /\ \E perm \in [DOMAIN hist.pushed -> DOMAIN hist.pushed] :
                         IsPartition([i \in DOMAIN hist.pushed |->
                                         hist.pushed[perm[i]].fast5s],
                                     fast5_files, batch_size)

\* Two workers have shared at least two batches and extract_features has
\* returned.
C10_Witness ==
    /\ orch.pc = "returned" /\ hist.crashes = 0
    /\ Len(procs) = 2 /\ Len(hist.pushed) >= 2
    /\ hist.pushed[1].fast5s # hist.dequeued[1]

====
